---- MODULE Spec2Model ----
(***************************************************************************)
(* Cameraman (prboom2/src/cman.c): the per-tic camera state machine, the   *)
(* path evaluators and the angle smoothing buffer, together with the       *)
(* start-up code that reads the command line and the profile.              *)
(*                                                                         *)
(* Numbers.  A C float is modelled by an exact rational [n, d] with d > 0  *)
(* in lowest terms, extended by the three non-finite IEEE values           *)
(* (d = 0: n = 1 is +inf, n = -1 is -inf, n = 0 is NaN).  Rounding of      *)
(* finite results is not modelled; division by zero, NaN propagation and   *)
(* comparisons with NaN are.                                               *)
(***************************************************************************)
EXTENDS Integers, Sequences, FiniteSets, TLC

(***************************************************************************)
(* Bounds of the model.                                                    *)
(***************************************************************************)
\* largest leveltime the host reaches within one level
MaxTic == 6
\* number of levels the host loads in one run
MaxLevels == 2
\* number of gametics the host runs in one run
MaxGametic == 9

(***************************************************************************)
(* Program constants.                                                      *)
(***************************************************************************)
CMAN_PATH_MODE_LINEAR == 0
CMAN_PATH_MODE_RADIAL == 1
CMAN_PATH_MODE_BEZIER == 2
CMAN_SPEED_MODE_DISTANCE == 0
CMAN_SPEED_MODE_TIME == 1
CMAN_ANGLE_MODE_RELATIVE == 0
CMAN_ANGLE_MODE_ABSOLUTE == 1
\* steps per turn of CMAN_FromZDoomAngle / CMAN_ToZDoomAngle (1 << FRACBITS)
AngleSteps == 65536
\* capacity of cman_angle_buffer.values
BufferCapacity == 1024

(***************************************************************************)
(* Extended rationals standing for float.                                  *)
(***************************************************************************)
Abs(x) == IF x < 0 THEN -x ELSE x

Sgn(x) == IF x < 0 THEN -1 ELSE IF x > 0 THEN 1 ELSE 0

RECURSIVE GCD(_, _)
GCD(a, b) == IF b = 0 THEN a ELSE GCD(b, a % b)

\* n / d in lowest terms, d # 0
Rat(n, d) ==
  LET g == GCD(Abs(n), Abs(d))
      s == IF d < 0 THEN -1 ELSE 1
  IN  [n |-> s * (n \div g), d |-> s * (d \div g)]

FromInt(i) == [n |-> i, d |-> 1]

Zero == FromInt(0)

One == FromInt(1)

NaN == [n |-> 0, d |-> 0]

Inf(s) == [n |-> s, d |-> 0]

IsFinite(a) == a.d > 0

IsNaN(a) == a.d = 0 /\ a.n = 0

IsZero(a) == a.d > 0 /\ a.n = 0

\* a + b
FAdd(a, b) ==
  IF IsNaN(a) \/ IsNaN(b) THEN NaN
  ELSE IF a.d = 0 /\ b.d = 0 THEN (IF a.n = b.n THEN a ELSE NaN)
  ELSE IF a.d = 0 THEN a
  ELSE IF b.d = 0 THEN b
  ELSE LET g == GCD(a.d, b.d)
       IN  Rat(a.n * (b.d \div g) + b.n * (a.d \div g), (a.d \div g) * b.d)

FNeg(a) == [n |-> -a.n, d |-> a.d]

\* a - b
FSub(a, b) == FAdd(a, FNeg(b))

\* fabs
FAbs(a) == [n |-> Abs(a.n), d |-> a.d]

\* a * b
FMul(a, b) ==
  IF IsNaN(a) \/ IsNaN(b) THEN NaN
  ELSE IF a.d = 0 \/ b.d = 0
    THEN (IF a.n = 0 \/ b.n = 0 THEN NaN ELSE Inf(Sgn(a.n) * Sgn(b.n)))
  ELSE LET g1 == GCD(Abs(a.n), b.d)
           g2 == GCD(Abs(b.n), a.d)
       IN  [n |-> (a.n \div g1) * (b.n \div g2), d |-> (a.d \div g2) * (b.d \div g1)]

\* a / b, with the IEEE results of a division by zero
FDiv(a, b) ==
  IF IsNaN(a) \/ IsNaN(b) THEN NaN
  ELSE IF a.d = 0 /\ b.d = 0 THEN NaN
  ELSE IF a.d = 0 THEN Inf(a.n * (IF b.n < 0 THEN -1 ELSE 1))
  ELSE IF b.d = 0 THEN Zero
  ELSE IF b.n = 0 THEN (IF a.n = 0 THEN NaN ELSE Inf(Sgn(a.n)))
  ELSE FMul(a, Rat(b.d, b.n))

\* a < b; false when either side is NaN
FLt(a, b) ==
  IF IsNaN(a) \/ IsNaN(b) THEN FALSE
  ELSE IF a.d = 0 THEN a.n < 0 /\ ~(b.d = 0 /\ b.n < 0)
  ELSE IF b.d = 0 THEN b.n > 0
  ELSE LET g == GCD(a.d, b.d)
       IN  a.n * (b.d \div g) < b.n * (a.d \div g)

\* a > b; false when either side is NaN
FGt(a, b) == FLt(b, a)

\* a >= b; false when either side is NaN
FGe(a, b) == ~IsNaN(a) /\ ~IsNaN(b) /\ ~FLt(a, b)

\* C truth value of a float: anything but zero
FTruth(a) == ~IsZero(a)

\* floorf of a finite value
Floor(a) == a.n \div a.d

\* (int) of a finite value: truncation towards zero
Trunc(a) == IF a.n >= 0 THEN a.n \div a.d ELSE -((-a.n) \div a.d)

\* C integer division (towards zero), b > 0
CDiv(a, b) == IF a >= 0 THEN a \div b ELSE -((-a) \div b)

\* largest k with k * k <= m
RECURSIVE ISqrtFrom(_, _)
ISqrtFrom(m, k) == IF (k + 1) * (k + 1) > m THEN k ELSE ISqrtFrom(m, k + 1)

\* sqrt: exact on squares of rationals, rounded down to 1/d otherwise
FSqrt(a) ==
  IF IsNaN(a) \/ (a.d = 0 /\ a.n < 0) \/ (a.d > 0 /\ a.n < 0) THEN NaN
  ELSE IF a.d = 0 THEN a
  ELSE Rat(ISqrtFrom(a.n * a.d, 0), a.d)

(***************************************************************************)
(* Host types.  angle_t is an unsigned 32-bit binary angle, kept as its    *)
(* two 16-bit halves [hi, lo]; fixed_t is a signed 16.16 number, kept as   *)
(* the integer it is.                                                      *)
(***************************************************************************)
MinFixed == -2147483647 - 1

\* outcomes of a float-to-int conversion the C standard leaves undefined
\* (NaN, infinities, values out of range)
UBOutcomes ==
  { [fixed |-> 0, hi |-> 0], [fixed |-> MinFixed, hi |-> AngleSteps - 1] }

\* (fixed_t)(x * FRACUNIT)
dsda_FloatToFixed(x, ub) ==
  IF IsFinite(x) /\ FLt(FromInt(-32768), x) /\ FLt(x, FromInt(32768))
    THEN Trunc(FMul(x, FromInt(AngleSteps)))
    ELSE ub.fixed

\* the host's angle resolver: the bearing of (x - x1, y - y1) as a binary
\* angle.  Exact on the eight compass directions; between them the angle
\* is interpolated linearly in the slope within the octant.
R_PointToAngleEx2(x1, y1, x, y) ==
  LET big(v) == v > 1073741823 \/ v < -1073741823
      sc     == big(x) \/ big(y) \/ big(x1) \/ big(y1)
      dx     == IF sc THEN (x \div AngleSteps) - (x1 \div AngleSteps) ELSE x - x1
      dy     == IF sc THEN (y \div AngleSteps) - (y1 \div AngleSteps) ELSE y - y1
      ax     == Abs(dx)
      ay     == Abs(dy)
      oct    == AngleSteps \div 8
      q(m, M) == Floor(FMul(FromInt(oct), Rat(m, M)))
      h == IF dx = 0 /\ dy = 0 THEN 0
           ELSE IF dx > 0 /\ dy >= 0
             THEN (IF ay <= ax THEN q(ay, ax) ELSE 2 * oct - q(ax, ay))
           ELSE IF dx <= 0 /\ dy > 0
             THEN (IF ax <= ay THEN 2 * oct + q(ax, ay) ELSE 4 * oct - q(ay, ax))
           ELSE IF dx < 0 /\ dy <= 0
             THEN (IF ay <= ax THEN 4 * oct + q(ay, ax) ELSE 6 * oct - q(ax, ay))
           ELSE (IF ax <= ay THEN 6 * oct + q(ax, ay) ELSE 8 * oct - q(ay, ax))
  IN  [hi |-> h % AngleSteps, lo |-> 0]

\* cos and sin of a turn fraction, tabulated every eighth of a turn
\* (181/256 stands for sqrt(2)/2); arguments in between are rounded down
TrigTable(k) ==
  LET r == Rat(181, 256)
  IN  CASE k = 0 -> [c |-> One, s |-> Zero]
        [] k = 1 -> [c |-> r, s |-> r]
        [] k = 2 -> [c |-> Zero, s |-> One]
        [] k = 3 -> [c |-> FNeg(r), s |-> r]
        [] k = 4 -> [c |-> FNeg(One), s |-> Zero]
        [] k = 5 -> [c |-> FNeg(r), s |-> FNeg(r)]
        [] k = 6 -> [c |-> Zero, s |-> FNeg(One)]
        [] OTHER -> [c |-> r, s |-> FNeg(r)]

Trig(turn) ==
  IF ~IsFinite(turn) THEN [c |-> NaN, s |-> NaN]
  ELSE TrigTable(Floor(FMul(FSub(turn, FromInt(Floor(turn))), FromInt(8))))

(***************************************************************************)
(* Angle and vector primitives (cman.c 105-149).                           *)
(***************************************************************************)
\* the conversion scaled by 65535 instead of 65536
CMAN_FromZDoomAngle_Scale(a, ub) ==
  IF ~IsFinite(a) THEN [hi |-> ub.hi, lo |-> 0]
  ELSE LET fr == FSub(a, FromInt(Floor(a)))
           k  == Floor(FMul(fr, FromInt(AngleSteps - 1)))
       IN  [hi |-> k % AngleSteps, lo |-> 0]

\* Converts ZDoom-style angle (between 0.0 and 1.0) to BAM.
CMAN_FromZDoomAngle(a, ub) ==
  IF ~IsFinite(a) THEN [hi |-> ub.hi, lo |-> 0]
  ELSE LET fr == FSub(a, FromInt(Floor(a)))
           k  == Floor(FMul(fr, FromInt(AngleSteps)))
       IN  [hi |-> k % AngleSteps, lo |-> 0]

\* Converts BAM angle value into ZDoom-style.
CMAN_ToZDoomAngle(a) == Rat(a.hi, AngleSteps)

\* Length of <x,y> vector.
CMAN_VectorLength(x, y) == FSqrt(FAdd(FMul(x, x), FMul(y, y)))

\* Angle of <x,y> vector relative to origin (zero).
CMAN_VectorAngle(x, y, ub) ==
  CMAN_ToZDoomAngle(
    R_PointToAngleEx2(0, 0, dsda_FloatToFixed(x, ub), dsda_FloatToFixed(y, ub)))

\* the correction of the counter-clockwise crossing alone
CMAN_FixAngleCrossingEast_OneWay(angle, prev_angle) ==
  IF FLt(FSub(angle, prev_angle), Rat(-1, 2)) THEN FAdd(angle, One)
  ELSE angle

\* Corrects an angle that crosses the zero threshold in relation to some
\* previous angle value.
CMAN_FixAngleCrossingEast(angle, prev_angle) ==
  IF FLt(FSub(angle, prev_angle), Rat(-1, 2)) THEN FAdd(angle, One)
  ELSE IF FGt(FSub(angle, prev_angle), Rat(1, 2)) THEN FSub(angle, One)
  ELSE angle

(***************************************************************************)
(* The program's state.                                                    *)
(***************************************************************************)
VARIABLES
  pc,                 \* where the host is: "boot", "init", "level", "exited"
  args,               \* the command line: which -cman* arguments were given
  cman,               \* input cameraman parameters (struct cman)
  cman_out,           \* output values for camera position
  cman_auto_skip,     \* extra behavior settings
  cman_auto_exit,
  cman_was_active,    \* track active state to detect changes
  cman_angle_buffer,  \* angle buffer: values, index, sum
  prev_tangent_angle, \* previous tangent angle (relevant to Bezier)
  walkcamera,         \* the host's camera override
  player,             \* players[displayplayer].mo
  gametic,            \* host tic counter
  levelstarttic,      \* gametic at which the current level started
  leveltime,          \* tics run in the current level
  levels,             \* levels loaded so far
  skiptics,           \* whether CMAN_SkipTics was called, and what it returned
  tick,               \* what the last call of CMAN_Ticker saw and did
  session,            \* what happened since the last level was loaded
  twin,               \* a second run: the same profile and tics, started
                      \* from the initial session state at each level load
  peer,               \* a session of its own: the same tics and answers of
                      \* the host, the profile with the other overshoot flag
  probe               \* the inputs and results of the last application of
                      \* the angle primitives on their own

vars ==
  <<pc, args, cman, cman_out, cman_auto_skip, cman_auto_exit, cman_was_active,
    cman_angle_buffer, prev_tangent_angle, walkcamera, player, gametic,
    levelstarttic, leveltime, levels, skiptics, tick, session,
    twin, peer, probe>>

(***************************************************************************)
(* Path evaluators (cman.c 151-284).  An evaluator works on the record g   *)
(* of the module's globals: it writes g.cman_out (and prev_tangent_angle)  *)
(* and leaves the value it returns in g.progress.  A local of the C        *)
(* function is the parameter of a local operator, applied once to the      *)
(* expression the C code assigns to it.  g.divzero records that a float    *)
(* division the call executed had a zero divisor.                          *)
(***************************************************************************)
\* a division that is executed (taken) and whose divisor is zero
DividesByZero(taken, divisor) == taken /\ IsZero(divisor)

\* v0 + (v1 - v0) * progress
Lerp(v0, v1, progress) == FAdd(v0, FMul(FSub(v1, v0), progress))

\* Outputs next values for Linear path mode.
CMAN_NextLinearValues(g, t, overshoot) ==
  LET Relative(out) ==
        IF cman.angle_mode = CMAN_ANGLE_MODE_RELATIVE
          THEN [out EXCEPT !.a =
                  FAdd(@, CMAN_VectorAngle(FSub(cman.x1, cman.x0),
                                           FSub(cman.y1, cman.y0), g.ub))]
          ELSE out
      Values(progress) ==
        IF overshoot \/ FLt(progress, One)
          THEN [x |-> Lerp(cman.x0, cman.x1, progress),
                y |-> Lerp(cman.y0, cman.y1, progress),
                z |-> Lerp(cman.z0, cman.z1, progress),
                a |-> Lerp(cman.a0, cman.a1, progress),
                p |-> Lerp(cman.p0, cman.p1, progress)]
          ELSE [x |-> cman.x1, y |-> cman.y1, z |-> cman.z1, a |-> cman.a1,
                p |-> cman.p1]
      Return(progress) ==
        [g EXCEPT
           !.cman_out = Relative(Values(progress)),
           !.progress = progress,
           !.divzero =
             \/ @
             \/ DividesByZero(cman.speed_mode = CMAN_SPEED_MODE_DISTANCE,
                              CMAN_VectorLength(FSub(cman.x1, cman.x0),
                                                FSub(cman.y1, cman.y0)))
             \/ DividesByZero(/\ cman.speed_mode = CMAN_SPEED_MODE_TIME
                              /\ FTruth(cman.speed), cman.speed)]
  IN  Return(IF cman.speed_mode = CMAN_SPEED_MODE_DISTANCE
               THEN FDiv(FMul(cman.speed, t),
                         CMAN_VectorLength(FSub(cman.x1, cman.x0),
                                           FSub(cman.y1, cman.y0)))
             ELSE IF cman.speed_mode = CMAN_SPEED_MODE_TIME
               THEN (IF FTruth(cman.speed) THEN FDiv(t, cman.speed) ELSE Zero)
             ELSE Zero)

\* Outputs next values for Radial path mode.
CMAN_NextRadialValues(g, t, overshoot) ==
  LET Relative(v, x, y) ==
        IF cman.angle_mode = CMAN_ANGLE_MODE_RELATIVE
          THEN FAdd(v.a, CMAN_VectorAngle(FSub(v.cx, x), FSub(v.cy, y), g.ub))
          ELSE v.a
      Point(v, x, y) ==
        [x |-> x, y |-> y, z |-> v.z, a |-> Relative(v, x, y), p |-> v.p]
      OnCircle(v, cs) ==
        Point(v, FAdd(v.cx, FMul(cs.c, v.r)), FAdd(v.cy, FMul(cs.s, v.r)))
      Out(v) == OnCircle(v, Trig(v.ra))
      Values(progress) ==
        IF overshoot \/ FLt(progress, One)
          THEN [ra |-> Lerp(cman.ra0, cman.ra1, progress),
                r  |-> Lerp(cman.r0, cman.r1, progress),
                cx |-> Lerp(cman.cx0, cman.cx1, progress),
                cy |-> Lerp(cman.cy0, cman.cy1, progress),
                z  |-> Lerp(cman.z0, cman.z1, progress),
                a  |-> Lerp(cman.a0, cman.a1, progress),
                p  |-> Lerp(cman.p0, cman.p1, progress)]
          ELSE [ra |-> cman.ra1, r |-> cman.r1, cx |-> cman.cx1,
                cy |-> cman.cy1, z |-> cman.z1, a |-> cman.a1, p |-> cman.p1]
      Return(progress) ==
        [g EXCEPT
           !.cman_out = Out(Values(progress)),
           !.progress = progress,
           !.divzero =
             \/ @
             \/ DividesByZero(cman.speed_mode = CMAN_SPEED_MODE_DISTANCE,
                              FAbs(FSub(cman.ra1, cman.ra0)))
             \/ DividesByZero(/\ cman.speed_mode = CMAN_SPEED_MODE_TIME
                              /\ FTruth(cman.speed), cman.speed)]
  IN  Return(IF cman.speed_mode = CMAN_SPEED_MODE_DISTANCE
               THEN FDiv(FMul(cman.speed, t), FAbs(FSub(cman.ra1, cman.ra0)))
             ELSE IF cman.speed_mode = CMAN_SPEED_MODE_TIME
               THEN (IF FTruth(cman.speed) THEN FDiv(t, cman.speed) ELSE Zero)
             ELSE Zero)

\* a point of the quadratic curve: c1 + (1-p)^2 (c0 - c1) + p^2 (c2 - c1)
BezierPoint(c0, c1, c2, p) ==
  LET Sq(v) == FMul(v, v)
  IN  FAdd(FAdd(c1, FMul(Sq(FSub(One, p)), FSub(c0, c1))),
           FMul(Sq(p), FSub(c2, c1)))

\* Outputs next values for Bezier path mode.
CMAN_NextBezierValues(g, t, overshoot) ==
  LET Store(base, progress, tangent_angle) ==
        [g EXCEPT !.cman_out = [base EXCEPT !.a = FAdd(@, tangent_angle)],
                  !.prev_tangent_angle = tangent_angle,
                  !.progress = progress,
                  !.divzero = \/ @
                              \/ DividesByZero(FTruth(cman.speed), cman.speed)
                              \/ DividesByZero(TRUE, cman.speed)]
      Fix(tangent_angle) ==
        IF g.cman_was_active
          THEN CMAN_FixAngleCrossingEast(tangent_angle, g.prev_tangent_angle)
          ELSE tangent_angle
      Tangent(base, p) ==
        CMAN_VectorAngle(
          FSub(base.x, BezierPoint(cman.x0, cman.x1, cman.x2, p)),
          FSub(base.y, BezierPoint(cman.y0, cman.y1, cman.y2, p)), g.ub)
      Relative(base, progress) ==
        IF cman.angle_mode = CMAN_ANGLE_MODE_RELATIVE
          THEN Store(base, progress,
                     Fix(Tangent(base, FDiv(FSub(t, One), cman.speed))))
          ELSE [g EXCEPT !.cman_out = base, !.progress = progress,
                         !.divzero = \/ @
                                     \/ DividesByZero(FTruth(cman.speed),
                                                      cman.speed)]
      Values(progress) ==
        IF overshoot \/ FLt(progress, One)
          THEN [x |-> BezierPoint(cman.x0, cman.x1, cman.x2, progress),
                y |-> BezierPoint(cman.y0, cman.y1, cman.y2, progress),
                z |-> BezierPoint(cman.z0, cman.z1, cman.z2, progress),
                a |-> Lerp(cman.a0, cman.a1, progress),
                p |-> Lerp(cman.p0, cman.p1, progress)]
          ELSE [x |-> cman.x2, y |-> cman.y2, z |-> cman.z2, a |-> cman.a1,
                p |-> cman.p1]
      Return(progress) == Relative(Values(progress), progress)
  IN  Return(IF FTruth(cman.speed) THEN FDiv(t, cman.speed) ELSE Zero)

\* the evaluators called with overshoot true whatever the caller passes
CMAN_NextValuesUnbuffered_Overshoot(g, t, overshoot) ==
  IF cman.path_mode = CMAN_PATH_MODE_LINEAR
    THEN CMAN_NextLinearValues(g, t, TRUE)
  ELSE IF cman.path_mode = CMAN_PATH_MODE_RADIAL
    THEN CMAN_NextRadialValues(g, t, TRUE)
  ELSE IF cman.path_mode = CMAN_PATH_MODE_BEZIER
    THEN CMAN_NextBezierValues(g, t, TRUE)
  ELSE [g EXCEPT !.progress = One]

\* Outputs next values, depending on the path mode.
\* The output is unbuffered, as in no angle filtering is applied.
CMAN_NextValuesUnbuffered(g, t, overshoot) ==
  IF cman.path_mode = CMAN_PATH_MODE_LINEAR
    THEN CMAN_NextLinearValues(g, t, overshoot)
  ELSE IF cman.path_mode = CMAN_PATH_MODE_RADIAL
    THEN CMAN_NextRadialValues(g, t, overshoot)
  ELSE IF cman.path_mode = CMAN_PATH_MODE_BEZIER
    THEN CMAN_NextBezierValues(g, t, overshoot)
  ELSE [g EXCEPT !.progress = One]

(***************************************************************************)
(* Angle smoothing buffer (cman.c 286-340).  values is kept as a function  *)
(* on the slots written so far; a slot never written reads as the zero     *)
(* the static array starts with.  Beside the three fields of the C struct  *)
(* the record keeps, for each slot written, the time its sample was        *)
(* evaluated at (times); no operation of the program reads it.             *)
(***************************************************************************)
BufRead(values, i) == IF i \in DOMAIN values THEN values[i] ELSE Zero

BufWrite(values, i, v) ==
  IF i \in DOMAIN values THEN [values EXCEPT ![i] = v] ELSE (i :> v) @@ values

\* float values[1024]: the slots the array has
InArray(i) == 0 <= i /\ i < BufferCapacity

\* largest e with 2^e <= k, for k > 0
RECURSIVE Log2(_)
Log2(k) == IF k < 2 THEN 0 ELSE 1 + Log2(k \div 2)

\* sign bit clear, exponent field e + 111 and the 23 bits of the mantissa
\* of k / 65536, for k > 0 and e = Log2(k)
FloatBitsOf(k, e) ==
  (e + 111) * 8388608
    + (IF e <= 23 THEN (k - 2^e) * 2^(23 - e) ELSE (k - 2^e) \div 2^(e - 23))

\* v * 65536 towards zero, for a finite v with 0 <= v < 32768
ToSteps(v) ==
  (v.n \div v.d) * AngleSteps
    + (IF AngleSteps % v.d = 0 THEN (v.n % v.d) * (AngleSteps \div v.d)
       ELSE ((v.n % v.d) * AngleSteps) \div v.d)

\* the bits of a float v > 0: v is taken to the multiple of 1/65536
\* towards zero, a v below 1/65536 to 1/65536 and a v from 32768 on to
\* infinity
FloatMagnitudeBits(v) ==
  IF ~IsFinite(v) \/ v.n \div v.d >= 32768 THEN 2139095040
  ELSE IF ToSteps(v) = 0 THEN FloatBitsOf(1, 0)
  ELSE FloatBitsOf(ToSteps(v), Log2(ToSteps(v)))

\* the int whose bytes are those of the float v (IEEE 754 single)
FloatBits(v) ==
  IF IsNaN(v) THEN 2143289344
  ELSE IF IsZero(v) THEN 0
  ELSE IF FLt(v, Zero) THEN MinFixed + FloatMagnitudeBits(FNeg(v))
  ELSE FloatMagnitudeBits(v)

\* values[i] = v with i outside the array.  The struct lays index behind
\* the last slot and sum behind index: the store changes them, unless the
\* build keeps the field in a register across the store (mem.alias).  A
\* slot further away is memory of another object or no memory at all: the
\* store faults or is lost to the module.
BufferOverrun(g, i, v) ==
  IF i = BufferCapacity
    THEN [g EXCEPT !.oob = TRUE,
                   !.cman_angle_buffer.index =
                      IF g.mem.alias THEN FloatBits(v) ELSE @]
  ELSE IF i = BufferCapacity + 1
    THEN [g EXCEPT !.oob = TRUE,
                   !.cman_angle_buffer.sum = IF g.mem.alias THEN v ELSE @]
  ELSE [g EXCEPT !.oob = TRUE, !.crash = g.mem.fault]

\* the float read at values[i]
BufferLoad(g, i) ==
  IF InArray(i) THEN BufRead(g.cman_angle_buffer.values, i)
  ELSE IF i = BufferCapacity + 1 THEN g.cman_angle_buffer.sum
  ELSE g.mem.read

\* one pass of the loop body: values[i] = cman_out.a; sum += cman_out.a
BufferStore(g1, i, buffer_t) ==
  IF InArray(i)
    THEN [g1 EXCEPT !.cman_angle_buffer.values = BufWrite(@, i, g1.cman_out.a),
                    !.cman_angle_buffer.sum = FAdd(@, g1.cman_out.a),
                    !.cman_angle_buffer.times = BufWrite(@, i, buffer_t)]
    ELSE [BufferOverrun(g1, i, g1.cman_out.a) EXCEPT
            !.cman_angle_buffer.sum = FAdd(@, g1.cman_out.a)]

\* the loop of CMAN_NextBufferValues that fills the whole buffer, here its
\* passes for the slots hi down to lo; buffer_t is the time of slot hi.
\* A pass runs when the passes before it are done and did not fault.
RECURSIVE BufferFill(_, _, _, _)
BufferFill(g, hi, lo, buffer_t) ==
  IF g.crash \/ hi < lo THEN g
  ELSE IF hi = lo
    THEN BufferStore(CMAN_NextValuesUnbuffered(g, buffer_t, TRUE), hi, buffer_t)
  ELSE BufferFill(BufferFill(g, hi, ((hi + lo) \div 2) + 1, buffer_t),
                  (hi + lo) \div 2, lo,
                  FSub(buffer_t, FromInt(hi - ((hi + lo) \div 2))))

\* Advance the cyclic buffer index
BufferAdvance(g) ==
  LET i == g.cman_angle_buffer.index + 1
  IN  [g EXCEPT !.cman_angle_buffer.index = IF i = cman.ga_buffer_len THEN 0 ELSE i]

\* the steady-state branch without "sum -= values[index]"
BufferReplace_NoSubtract(g, buffer_t) ==
  [g EXCEPT
     !.cman_angle_buffer.sum = FAdd(@, g.cman_out.a),
     !.cman_angle_buffer.values =
        BufWrite(@, g.cman_angle_buffer.index, g.cman_out.a),
     !.cman_angle_buffer.times =
        BufWrite(@, g.cman_angle_buffer.index, buffer_t)]

\* the steady-state branch of CMAN_NextBufferValues: the slot at the index
\* is replaced and the sum corrected
BufferReplace(g, buffer_t) ==
  IF InArray(g.cman_angle_buffer.index)
    THEN [g EXCEPT
            !.cman_angle_buffer.sum =
               FAdd(FSub(@, BufRead(g.cman_angle_buffer.values,
                                    g.cman_angle_buffer.index)),
                    g.cman_out.a),
            !.cman_angle_buffer.values =
               BufWrite(@, g.cman_angle_buffer.index, g.cman_out.a),
            !.cman_angle_buffer.times =
               BufWrite(@, g.cman_angle_buffer.index, buffer_t)]
    ELSE BufferOverrun(
           [g EXCEPT !.cman_angle_buffer.sum =
                        FAdd(FSub(@, BufferLoad(g, g.cman_angle_buffer.index)),
                             g.cman_out.a)],
           g.cman_angle_buffer.index, g.cman_out.a)

\* the lookahead left out: the newest sample taken at the current time
next_buffer_t_Current(t) == t

\* int next_buffer_t = t + 1.f * (cman.ga_buffer_len / 2)
next_buffer_t(t) == FAdd(t, FromInt(CDiv(cman.ga_buffer_len, 2)))

\* Calculate next values for cman_angle_buffer.
CMAN_NextBufferValues(g, t) ==
  BufferAdvance(
    IF ~g.cman_was_active
      THEN BufferFill([g EXCEPT !.cman_angle_buffer.sum = Zero],
                      cman.ga_buffer_len - 1, 0, next_buffer_t(t))
      ELSE BufferReplace(CMAN_NextValuesUnbuffered(g, next_buffer_t(t), TRUE),
                         next_buffer_t(t)))

\* the test without the angle mode
angle_buffering_needed_AnyAngleMode ==
  /\ cman.ga_buffer_len > 1
  /\ cman.path_mode = CMAN_PATH_MODE_BEZIER

angle_buffering_needed ==
  /\ cman.ga_buffer_len > 1
  /\ cman.path_mode = CMAN_PATH_MODE_BEZIER
  /\ cman.angle_mode = CMAN_ANGLE_MODE_RELATIVE

\* the first half of CMAN_NextValues: calculate the buffer values first
CMAN_BufferedFirst(g, t) ==
  IF angle_buffering_needed THEN CMAN_NextBufferValues(g, t) ELSE g

\* the last step of CMAN_NextValues: the average of the buffer is the yaw
CMAN_Smoothed(g) ==
  IF angle_buffering_needed
    THEN [g EXCEPT !.cman_out.a =
            FDiv(g.cman_angle_buffer.sum, FromInt(cman.ga_buffer_len)),
                   !.divzero = @ \/ DividesByZero(TRUE, FromInt(cman.ga_buffer_len))]
    ELSE g

\* the buffer updated after the tic's own pose was computed
CMAN_NextValues_BufferLast(g, t) ==
  CMAN_Smoothed(
    CMAN_BufferedFirst(CMAN_NextValuesUnbuffered(g, t, g.overshoot # 0), t))

\* Outputs next values, depending on the path mode.
\* Applies angle filtering if needed.
CMAN_NextValues(g, t) ==
  CMAN_Smoothed(
    CMAN_NextValuesUnbuffered(CMAN_BufferedFirst(g, t), t, g.overshoot # 0))

(***************************************************************************)
(* CMAN_Ticker (cman.c 342-417).  The record g carries the globals through *)
(* the call together with what the call reports: ret (the value returned), *)
(* reset (R_ResetViewInterpolation was called), exit (I_SafeExit was       *)
(* called), emit (the camera override was written).  The record in holds   *)
(* what the host supplies: gametic, levelstarttic, leveltime,              *)
(* demoplayback, skipmode (dsda_SkipMode), teleport_ok (P_TeleportMove)    *)
(* and ub, the outcome of conversions C leaves undefined; in.overshoot is   *)
(* cman.overshoot as the session's profile has it, kept in g.overshoot.    *)
(* g.divzero is cleared on entry and tells afterwards whether the call     *)
(* divided by zero.                                                        *)
(***************************************************************************)
\* Cameraman is not loaded at all
CMAN_Disabled == cman.delay < 0

\* Reset the camera at every level start
CMAN_LevelStartReset(g, in) ==
  IF in.gametic = in.levelstarttic
    THEN [g EXCEPT !.walkcamera.type = 0, !.cman_was_active = FALSE]
    ELSE g

\* the relative tic without the "- 1" that makes it 0 on the tic after the delay
CMAN_Time_OffByOne(in) == in.leveltime - cman.delay

\* int cman_time = leveltime - cman.delay - 1
CMAN_Time(in) == in.leveltime - cman.delay - 1

\* the test written as "progress != 1.f"
CMAN_PathNotCompleted_NotEqual(progress) ==
  FLt(progress, One) \/ FGt(progress, One)

\* the test that selects the branch updating the camera
CMAN_PathNotCompleted(progress) == FLt(progress, One)

\* Disable interpolation for one frame on the first active tic
CMAN_ResetInterpolation(g) ==
  IF ~g.cman_was_active THEN [g EXCEPT !.reset = TRUE] ELSE g

\* the camera override written from cman_out
CMAN_SetWalkcamera(g) ==
  [g EXCEPT
     !.emit = TRUE,
     !.walkcamera =
       [type  |-> 2,
        x     |-> dsda_FloatToFixed(g.cman_out.x, g.ub),
        y     |-> dsda_FloatToFixed(g.cman_out.y, g.ub),
        z     |-> dsda_FloatToFixed(g.cman_out.z, g.ub),
        angle |-> CMAN_FromZDoomAngle(g.cman_out.a, g.ub),
        pitch |-> CMAN_FromZDoomAngle(g.cman_out.p, g.ub)]]

\* Warp the player (not supported during demo playback)
CMAN_WarpPlayer(g, in) ==
  IF cman.warp_player # 0 /\ ~in.demoplayback /\ in.teleport_ok
    THEN [g EXCEPT !.player =
            [@ EXCEPT !.x = g.walkcamera.x, !.y = g.walkcamera.y,
                      !.z = g.walkcamera.z, !.angle = g.walkcamera.angle,
                      !.pitch = g.walkcamera.pitch,
                      !.momx = 0, !.momy = 0, !.momz = 0]]
    ELSE g

\* Hide the player
CMAN_HidePlayer(g) ==
  IF cman.hide_player # 0 THEN [g EXCEPT !.player.dontdraw = TRUE] ELSE g

\* Auto-exit after the camera is done, but not while skipping frames
CMAN_AutoExit(g, in) ==
  IF cman_auto_exit /\ ~in.skipmode THEN [g EXCEPT !.exit = TRUE] ELSE g

\* cman_was_active = true; return true
CMAN_Engaged(g) == [g EXCEPT !.cman_was_active = TRUE, !.ret = TRUE]

\* the camera written before the test of the progress
CMAN_Update_PoseFirst(g, in) ==
  IF CMAN_PathNotCompleted(g.progress)
    THEN CMAN_HidePlayer(
           CMAN_WarpPlayer(
             CMAN_SetWalkcamera(CMAN_ResetInterpolation(g)), in))
    ELSE CMAN_AutoExit(CMAN_SetWalkcamera(g), in)

\* the two branches on the progress the evaluator returned
CMAN_Update(g, in) ==
  IF CMAN_PathNotCompleted(g.progress)
    THEN CMAN_HidePlayer(
           CMAN_WarpPlayer(
             CMAN_SetWalkcamera(CMAN_ResetInterpolation(g)), in))
    ELSE CMAN_AutoExit(g, in)

\* the call from the level-start test on
CMAN_Run(g, in) ==
  IF CMAN_Time(in) < 0 THEN g
  ELSE CMAN_Engaged(CMAN_Update(CMAN_NextValues(g, FromInt(CMAN_Time(in))), in))

\* what a call reports, cleared on entry
CMAN_Enter(g, in) ==
  [g EXCEPT !.ret = FALSE, !.reset = FALSE, !.exit = FALSE, !.emit = FALSE,
            !.progress = Zero, !.ub = in.ub, !.divzero = FALSE,
            !.mem = in.mem, !.oob = FALSE, !.overshoot = in.overshoot]

\* the level-start reset placed before the test of cman.delay
CMAN_Ticker_ResetFirst(g, in) ==
  IF CMAN_Disabled THEN CMAN_LevelStartReset(CMAN_Enter(g, in), in)
  ELSE CMAN_Run(CMAN_LevelStartReset(CMAN_Enter(g, in), in), in)

\* Meant to be called every gametic from P_WalkTicker.

CMAN_Ticker(g, in) ==
  IF CMAN_Disabled THEN CMAN_Enter(g, in)
  ELSE CMAN_Run(CMAN_LevelStartReset(CMAN_Enter(g, in), in), in)

(***************************************************************************)
(* Start-up (cman.c 419-564).                                              *)
(***************************************************************************)
\* the struct as the C runtime zero-initialises it
CmanStatic ==
  [delay |-> 0, path_mode |-> 0, speed_mode |-> 0, angle_mode |-> 0,
   overshoot |-> 0, warp_player |-> 0, hide_player |-> 0, ga_buffer_len |-> 0,
   speed |-> Zero, x0 |-> Zero, y0 |-> Zero, z0 |-> Zero, x1 |-> Zero,
   y1 |-> Zero, z1 |-> Zero, x2 |-> Zero, y2 |-> Zero, z2 |-> Zero,
   a0 |-> Zero, a1 |-> Zero, p0 |-> Zero, p1 |-> Zero, ra0 |-> Zero,
   ra1 |-> Zero, r0 |-> Zero, r1 |-> Zero, cx0 |-> Zero, cx1 |-> Zero,
   cy0 |-> Zero, cy1 |-> Zero]

\* the parameters CMAN_Init stores with an (int) cast
IntParams ==
  {"path_mode", "speed_mode", "angle_mode", "delay", "overshoot",
   "warp_player", "hide_player", "ga_buffer_len"}

\* Sets notable default input parameters.
CMAN_InitDefaults(c) ==
  [c EXCEPT !.delay = 0, !.path_mode = CMAN_PATH_MODE_LINEAR,
            !.speed_mode = CMAN_SPEED_MODE_DISTANCE,
            !.angle_mode = CMAN_ANGLE_MODE_RELATIVE, !.overshoot = 0,
            !.warp_player = 0, !.hide_player = 0, !.speed = One]

\* one line of the .cman file: '<param> = <value>'; unrecognized lines and
\* param names are ignored
CMAN_ParseLine(c, line) ==
  IF line.sep # "=" \/ line.name \notin DOMAIN c THEN c
  ELSE [c EXCEPT ![line.name] =
          IF line.name \in IntParams THEN Trunc(line.value) ELSE line.value]

RECURSIVE CMAN_ParseFile(_, _)
CMAN_ParseFile(c, file) ==
  IF file = <<>> THEN c
  ELSE CMAN_ParseFile(CMAN_ParseLine(c, Head(file)), Tail(file))

\* a line '<name> = n/d' of a profile
Ln(name, n, d) == [name |-> name, sep |-> "=", value |-> Rat(n, d)]

\* the .cman files the command line can name
Profiles ==
  << \* 1: an empty file: Linear, Distance, Relative, a path of length zero
     << >>,
     \* 2: Linear, Time, Absolute; hides the player
     << Ln("delay", 2, 1), Ln("speed_mode", 1, 1), Ln("angle_mode", 1, 1),
        Ln("speed", 3, 1), Ln("x1", 3, 1), Ln("y1", 6, 1), Ln("z1", 3, 1),
        Ln("a1", 3, 4), Ln("p1", 1, 4), Ln("hide_player", 1, 1) >>,
     \* 3: Linear, Distance, Relative; warps the player; a fractional delay,
     \*    an unknown parameter and a line without '='
     << Ln("delay", 1, 2), Ln("speed", 2, 1), Ln("y1", 4, 1),
        Ln("warp_player", 1, 1), Ln("colour", 7, 1),
        [name |-> "speed", sep |-> ":", value |-> FromInt(9)] >>,
     \* 4: Bezier, Relative, smoothed over 2 samples
     << Ln("delay", 1, 1), Ln("path_mode", 2, 1), Ln("ga_buffer_len", 2, 1),
        Ln("speed", 4, 1), Ln("x1", 4, 1), Ln("x2", 4, 1), Ln("y2", 4, 1) >>,
     \* 5: Bezier, Relative, smoothed over 3 samples, overshoot
     << Ln("path_mode", 2, 1), Ln("ga_buffer_len", 3, 1), Ln("overshoot", 1, 1),
        Ln("speed", 3, 1), Ln("y1", 3, 1), Ln("x2", -3, 1), Ln("y2", 3, 1),
        Ln("a0", 1, 8), Ln("a1", 1, 8) >>,
     \* 6: Bezier, Absolute
     << Ln("path_mode", 2, 1), Ln("angle_mode", 1, 1), Ln("speed", 2, 1),
        Ln("x1", 2, 1), Ln("y2", 2, 1), Ln("z2", 1, 1), Ln("a1", 1, 2),
        Ln("ga_buffer_len", 4, 1) >>,
     \* 7: Radial, Time, Relative: half a turn around the origin; a buffer
     \*    length the path mode has no use for
     << Ln("delay", 1, 1), Ln("path_mode", 1, 1), Ln("speed_mode", 1, 1),
        Ln("speed", 2, 1), Ln("ra1", 1, 2), Ln("r0", 2, 1), Ln("r1", 2, 1),
        Ln("ga_buffer_len", 2, 1) >>,
     \* 8: a profile that disables itself
     << Ln("delay", -1, 1), Ln("speed", 2, 1), Ln("x1", 4, 1) >>,
     \* 9: a negative speed on a path of length zero
     << Ln("speed", -1, 1) >>,
     \* 10: a path mode the program does not know
     << Ln("path_mode", 3, 1), Ln("x1", 4, 1) >>,
     \* 11: Bezier, Relative, speed 0, a buffer of one sample
     << Ln("path_mode", 2, 1), Ln("speed", 0, 1), Ln("ga_buffer_len", 1, 1),
        Ln("x1", 2, 1), Ln("x2", 2, 1), Ln("y2", 2, 1), Ln("a1", 1, 4) >>,
     \* 12: Linear, Time, speed 0
     << Ln("speed_mode", 1, 1), Ln("speed", 0, 1), Ln("x1", 2, 1),
        Ln("a1", 1, 4) >>,
     \* 13: Linear, Time, a speed of two tics and a half
     << Ln("speed_mode", 1, 1), Ln("speed", 5, 2), Ln("x1", 5, 1) >>,
     \* 14: Bezier, Relative, smoothed over one sample more than the array
     \*     of cman_angle_buffer holds
     << Ln("path_mode", 2, 1), Ln("ga_buffer_len", BufferCapacity + 1, 1),
        Ln("speed", 64, 1), Ln("x1", 2, 1), Ln("x2", 2, 1),
        Ln("y2", 2, 1) >> >>

\* the command lines: -cman <file>, -cman_auto_skip, -cman_auto_exit,
\* -cman_viddump <videofile>
\* (every combination of the flags with the files 1, 2 and 8 and without
\* -cman; the other files with and without -cman_auto_exit; the last file
\* is left to OverrunSpec)
CommandLines ==
  { a \in [cman : BOOLEAN, file : 1 .. Len(Profiles) - 1, auto_skip : BOOLEAN,
           auto_exit : BOOLEAN, viddump : BOOLEAN] :
      /\ ~a.cman => a.file = 1
      /\ a.file \notin {1, 2, 8} => ~a.auto_skip /\ ~a.viddump }

(***************************************************************************)
(* The host around the module.                                             *)
(***************************************************************************)
\* leveltime at the first call of CMAN_Ticker in a level
StartTimes == {0, 1}

PlayerSpawn ==
  [x |-> AngleSteps, y |-> AngleSteps, z |-> 0, angle |-> [hi |-> 0, lo |-> 0],
   pitch |-> [hi |-> 0, lo |-> 0], momx |-> 1, momy |-> 0, momz |-> 0,
   dontdraw |-> FALSE]

WalkcameraStatic ==
  [type |-> 0, x |-> 0, y |-> 0, z |-> 0, angle |-> [hi |-> 0, lo |-> 0],
   pitch |-> [hi |-> 0, lo |-> 0]]

CmanOutStatic == [x |-> Zero, y |-> Zero, z |-> Zero, a |-> Zero, p |-> Zero]

AngleBufferStatic ==
  [values |-> << >>, index |-> 0, sum |-> Zero, times |-> << >>]

\* what an access outside cman_angle_buffer.values meets: alias tells
\* whether a store behind the array is seen in index and sum, fault whether
\* an access away from the struct is stopped, read is the float found
\* there otherwise
MemOutcomes ==
  [alias : BOOLEAN, fault : {TRUE}, read : {Zero}]
    \cup [alias : BOOLEAN, fault : {FALSE}, read : {Zero, One}]

MemNone == [alias |-> TRUE, fault |-> TRUE, read |-> Zero]

\* the globals CMAN_Ticker works on, as a record
Globals ==
  [cman_out |-> cman_out, cman_was_active |-> cman_was_active,
   cman_angle_buffer |-> cman_angle_buffer,
   prev_tangent_angle |-> prev_tangent_angle, walkcamera |-> walkcamera,
   player |-> player, progress |-> Zero, ret |-> FALSE, reset |-> FALSE,
   exit |-> FALSE, emit |-> FALSE, ub |-> [fixed |-> 0, hi |-> 0],
   divzero |-> FALSE, mem |-> MemNone, oob |-> FALSE, crash |-> FALSE,
   overshoot |-> cman.overshoot]

\* the globals as they are when the process starts
GlobalsStatic ==
  [cman_out |-> CmanOutStatic, cman_was_active |-> FALSE,
   cman_angle_buffer |-> AngleBufferStatic, prev_tangent_angle |-> Zero,
   walkcamera |-> WalkcameraStatic, player |-> PlayerSpawn, progress |-> Zero,
   ret |-> FALSE, reset |-> FALSE, exit |-> FALSE, emit |-> FALSE,
   ub |-> [fixed |-> 0, hi |-> 0], divzero |-> FALSE, mem |-> MemNone,
   oob |-> FALSE, crash |-> FALSE, overshoot |-> 0]

ProbeNone == [kind |-> "none"]

TickNone ==
  [called |-> FALSE, levelstart |-> FALSE, leveltime |-> 0, skipmode |-> FALSE,
   ret |-> FALSE, progress |-> Zero, reset |-> FALSE, exit |-> FALSE,
   emit |-> FALSE, ub |-> [fixed |-> 0, hi |-> 0], divzero |-> FALSE,
   oob |-> FALSE, pre |-> GlobalsStatic, post |-> GlobalsStatic]

SessionNone ==
  [ticks |-> 0, resets |-> 0, engaged |-> 0, active |-> 0, completed |-> 0]

Init ==
  /\ pc = "boot"
  /\ args \in CommandLines
  /\ cman = CmanStatic
  /\ cman_out = CmanOutStatic
  /\ cman_auto_skip = FALSE
  /\ cman_auto_exit = FALSE
  /\ cman_was_active = FALSE
  /\ cman_angle_buffer = AngleBufferStatic
  /\ prev_tangent_angle = Zero
  /\ walkcamera = WalkcameraStatic
  /\ player = PlayerSpawn
  /\ gametic = 0
  /\ levelstarttic = 0
  /\ leveltime = 0
  /\ levels = 0
  /\ skiptics = [called |-> FALSE, value |-> 0]
  /\ tick = TickNone
  /\ session = SessionNone
  /\ twin = GlobalsStatic
  /\ peer = GlobalsStatic
  /\ probe = ProbeNone

\* the flags read before the test of -cman
CMAN_InitResult_FlagsFirst(a) ==
  IF ~a.cman
    THEN [cman |-> [cman EXCEPT !.delay = -1],
          auto_skip |-> (a.auto_skip \/ a.viddump \/ cman_auto_skip),
          auto_exit |-> (a.auto_exit \/ a.viddump \/ cman_auto_exit)]
    ELSE [cman |-> CMAN_ParseFile(CMAN_InitDefaults([cman EXCEPT !.delay = -1]),
                                  Profiles[a.file]),
          auto_skip |-> (a.auto_skip \/ a.viddump \/ cman_auto_skip),
          auto_exit |-> (a.auto_exit \/ a.viddump \/ cman_auto_exit)]

\* what CMAN_Init leaves in cman, cman_auto_skip and cman_auto_exit, given
\* the command line a
CMAN_InitResult(a) ==
  LET disabled == [cman EXCEPT !.delay = -1]
  IN  IF ~a.cman
        THEN [cman |-> disabled, auto_skip |-> cman_auto_skip,
              auto_exit |-> cman_auto_exit]
        ELSE [cman |-> CMAN_ParseFile(CMAN_InitDefaults(disabled), Profiles[a.file]),
              auto_skip |-> (a.auto_skip \/ a.viddump \/ cman_auto_skip),
              auto_exit |-> (a.auto_exit \/ a.viddump \/ cman_auto_exit)]

\* Meant to be called only once during the game startup.
CMAN_Init ==
  /\ pc = "boot"
  /\ pc' = "init"
  /\ \E r \in {CMAN_InitResult(args)} :
       /\ cman' = r.cman
       /\ cman_auto_skip' = r.auto_skip
       /\ cman_auto_exit' = r.auto_exit
  /\ UNCHANGED <<args, cman_out, cman_was_active, cman_angle_buffer,
                 prev_tangent_angle, walkcamera, player, gametic, levelstarttic,
                 leveltime, levels, skiptics, tick, session, twin, peer,
                 probe>>

\* "no skip" returned as 0
CMAN_SkipTicsResult_Zero == IF cman_auto_skip THEN cman.delay ELSE 0

\* Returns amount of tics to skip or -1 if no skip is needed.
CMAN_SkipTicsResult == IF cman_auto_skip THEN cman.delay ELSE -1

\* Meant to be called when setting up skiptics.
CMAN_SkipTics ==
  /\ pc = "init"
  /\ ~skiptics.called
  /\ skiptics' = [called |-> TRUE, value |-> CMAN_SkipTicsResult]
  /\ UNCHANGED <<pc, args, cman, cman_out, cman_auto_skip, cman_auto_exit,
                 cman_was_active, cman_angle_buffer, prev_tangent_angle,
                 walkcamera, player, gametic, levelstarttic, leveltime, levels,
                 tick, session, twin, peer, probe>>

\* the host loads a level: levelstarttic = gametic, leveltime restarts, the
\* player is spawned
G_DoLoadLevel ==
  /\ pc \in {"init", "level"}
  /\ levels < MaxLevels
  /\ pc' = "level"
  /\ levels' = levels + 1
  /\ levelstarttic' = gametic
  /\ leveltime' \in StartTimes
  /\ player' = PlayerSpawn
  /\ session' = SessionNone
  /\ twin' = [GlobalsStatic EXCEPT !.walkcamera = walkcamera]
  /\ peer' = [peer EXCEPT !.player = PlayerSpawn]
  /\ UNCHANGED <<args, cman, cman_out, cman_auto_skip, cman_auto_exit,
                 cman_was_active, cman_angle_buffer, prev_tangent_angle,
                 walkcamera, gametic, skiptics, tick, probe>>

\* some division of the evaluators has a zero divisor, so that a
\* non-finite value can reach a conversion to an integer
NonFinitePossible ==
  \/ /\ cman.path_mode = CMAN_PATH_MODE_LINEAR
     /\ cman.speed_mode = CMAN_SPEED_MODE_DISTANCE
     /\ IsZero(CMAN_VectorLength(FSub(cman.x1, cman.x0), FSub(cman.y1, cman.y0)))
  \/ /\ cman.path_mode = CMAN_PATH_MODE_RADIAL
     /\ cman.speed_mode = CMAN_SPEED_MODE_DISTANCE
     /\ IsZero(FSub(cman.ra1, cman.ra0))
  \/ /\ cman.path_mode = CMAN_PATH_MODE_BEZIER
     /\ cman.angle_mode = CMAN_ANGLE_MODE_RELATIVE
     /\ IsZero(cman.speed)

\* what the host can answer to one call of CMAN_Ticker; an answer the call
\* cannot consult is left at one value
HostInputs ==
  [skipmode     : IF cman_auto_exit THEN BOOLEAN ELSE {FALSE},
   demoplayback : IF cman.warp_player # 0 THEN BOOLEAN ELSE {FALSE},
   teleport_ok  : IF cman.warp_player # 0 THEN BOOLEAN ELSE {TRUE},
   ub           : IF NonFinitePossible THEN UBOutcomes
                  ELSE {[fixed |-> 0, hi |-> 0]},
   mem          : IF angle_buffering_needed /\ ~InArray(cman.ga_buffer_len - 1)
                    THEN (IF InArray(cman_angle_buffer.index)
                            THEN { m \in MemOutcomes : m.fault }
                            ELSE MemOutcomes)
                    ELSE {MemNone}]

\* the host's answers to the session of the profile with the other
\* overshoot flag
OtherOvershoot(in) ==
  [in EXCEPT !.overshoot = IF cman.overshoot # 0 THEN 0 ELSE 1]

\* a run after a call: its globals and what the call reported
TwinAfter(g) == [g EXCEPT !.ub = [fixed |-> 0, hi |-> 0], !.mem = MemNone]

\* one gametic of the host: P_WalkTicker calls CMAN_Ticker
G_Ticker ==
  /\ pc = "level"
  /\ leveltime <= MaxTic
  /\ gametic < MaxGametic
  /\ \E h \in HostInputs :
       LET in == [gametic |-> gametic, levelstarttic |-> levelstarttic,
                  leveltime |-> leveltime, demoplayback |-> h.demoplayback,
                  skipmode |-> h.skipmode, teleport_ok |-> h.teleport_ok,
                  ub |-> h.ub, mem |-> h.mem, overshoot |-> cman.overshoot]
       IN  \E g \in {CMAN_Ticker(Globals, in)}, tw \in {CMAN_Ticker(twin, in)},
              pr \in {CMAN_Ticker(peer, OtherOvershoot(in))} :
           IF g.crash
             THEN /\ pc' = "crashed"
                  /\ UNCHANGED <<cman_out, cman_was_active, cman_angle_buffer,
                                 prev_tangent_angle, walkcamera, player, twin,
                                 peer, tick, session>>
             ELSE
             /\ cman_out' = g.cman_out
             /\ cman_was_active' = g.cman_was_active
             /\ cman_angle_buffer' = g.cman_angle_buffer
             /\ prev_tangent_angle' = g.prev_tangent_angle
             /\ walkcamera' = g.walkcamera
             /\ player' = g.player
             /\ twin' = TwinAfter(tw)
             /\ peer' = TwinAfter(pr)
             /\ tick' = [called |-> TRUE, levelstart |-> (gametic = levelstarttic),
                         leveltime |-> leveltime,
                         skipmode |-> (h.skipmode /\ g.ret /\ ~g.emit),
                         ret |-> g.ret, progress |-> g.progress,
                         reset |-> g.reset, exit |-> g.exit, emit |-> g.emit,
                         ub |-> (IF g.ret THEN h.ub ELSE [fixed |-> 0, hi |-> 0]),
                         divzero |-> g.divzero, oob |-> g.oob,
                         pre |-> Globals, post |-> TwinAfter(g)]
             /\ session' =
                  [ticks     |-> session.ticks + 1,
                   resets    |-> session.resets + (IF g.reset THEN 1 ELSE 0),
                   engaged   |-> session.engaged + (IF g.ret THEN 1 ELSE 0),
                   active    |-> session.active + (IF g.emit THEN 1 ELSE 0),
                   completed |-> session.completed
                                   + (IF g.ret /\ FGe(g.progress, One)
                                        THEN 1 ELSE 0)]
             /\ pc' = IF g.exit THEN "exited" ELSE "level"
  /\ gametic' = gametic + 1
  /\ leveltime' = leveltime + 1
  /\ UNCHANGED <<args, cman, cman_auto_skip, cman_auto_exit, levelstarttic,
                 levels, skiptics, probe>>

\* the host's own walk camera: while Cameraman does not hold the camera,
\* the user may switch the walk camera on
P_WalkCamera ==
  /\ pc = "level"
  /\ tick.called /\ ~tick.ret
  /\ walkcamera.type = 0
  /\ walkcamera' = [walkcamera EXCEPT !.type = 1]
  /\ twin' = [twin EXCEPT !.walkcamera.type = 1]
  /\ peer' = [peer EXCEPT !.walkcamera.type = 1]
  /\ UNCHANGED <<pc, args, cman, cman_out, cman_auto_skip, cman_auto_exit,
                 cman_was_active, cman_angle_buffer, prev_tangent_angle, player,
                 gametic, levelstarttic, leveltime, levels, skiptics, tick,
                 session, probe>>

Next ==
  CMAN_Init \/ CMAN_SkipTics \/ G_DoLoadLevel \/ G_Ticker \/ P_WalkCamera

Spec == Init /\ [][Next]_vars

(***************************************************************************)
(* The profile whose buffer length exceeds the array.  A third             *)
(* specification starts where CMAN_Init has read the last of the files and *)
(* the host has loaded its first level, and runs the tics of that level.   *)
(***************************************************************************)
OverrunCommandLine ==
  [cman |-> TRUE, file |-> Len(Profiles), auto_skip |-> FALSE,
   auto_exit |-> FALSE, viddump |-> FALSE]

OverrunInit ==
  /\ pc = "level"
  /\ args = OverrunCommandLine
  /\ cman = CMAN_ParseFile(CMAN_InitDefaults([CmanStatic EXCEPT !.delay = -1]),
                           Profiles[OverrunCommandLine.file])
  /\ cman_out = CmanOutStatic
  /\ cman_auto_skip = FALSE
  /\ cman_auto_exit = FALSE
  /\ cman_was_active = FALSE
  /\ cman_angle_buffer = AngleBufferStatic
  /\ prev_tangent_angle = Zero
  /\ walkcamera = WalkcameraStatic
  /\ player = PlayerSpawn
  /\ gametic = 0
  /\ levelstarttic = 0
  /\ leveltime \in StartTimes
  /\ levels = 1
  /\ skiptics = [called |-> TRUE, value |-> -1]
  /\ tick = TickNone
  /\ session = SessionNone
  /\ twin = GlobalsStatic
  /\ peer = GlobalsStatic
  /\ probe = ProbeNone

OverrunNext == G_Ticker \/ P_WalkCamera

OverrunSpec == OverrunInit /\ [][OverrunNext]_vars

(***************************************************************************)
(* The host keeps running its tics: P_WalkTicker calls CMAN_Ticker on      *)
(* every gametic of a level, so a tic that can run does run.  G_Ticker is  *)
(* the one action that changes gametic, and it can run exactly when its    *)
(* three guards hold: weak fairness of the passing of a gametic is weak    *)
(* fairness of G_Ticker.                                                   *)
(***************************************************************************)
\* a gametic passes
GameticPasses ==
  /\ pc = "level"
  /\ leveltime <= MaxTic
  /\ gametic < MaxGametic
  /\ gametic' = gametic + 1

FairSpec == Init /\ [][Next]_vars /\ WF_gametic(GameticPasses)

(***************************************************************************)
(* The angle primitives on their own.  A second specification applies      *)
(* CMAN_FromZDoomAngle / CMAN_ToZDoomAngle to engine angles and turn        *)
(* fractions, and the tangent update of CMAN_NextBezierValues (cman.c       *)
(* 261-265) to sequences of raw headings, drawn from bounded sets.          *)
(***************************************************************************)
\* raw headings are the multiples of 1 / HeadingGrid in [0, 1)
HeadingGrid == 8
\* whole turns added to a turn fraction: -MaxTurns .. MaxTurns
MaxTurns == 2

Headings == { Rat(k, HeadingGrid) : k \in 0 .. HeadingGrid - 1 }

\* the high and low halves of the engine angles converted
AngleHighs == {0, 1, 16384, 32767, 32768, AngleSteps - 1}

AngleLows == {0, 1, AngleSteps - 1}

\* the turn fractions converted: multiples of 1 / 65536 in [0, 1)
TurnFractions == { Rat(k, AngleSteps) : k \in AngleHighs }

\* two headings in [0, 1) less than half a turn apart on the circle
LessThanHalfTurnApart(a, b) == FAbs(FSub(a, b)) # Rat(1, 2)

PrimitivesInit ==
  /\ pc = "primitives"
  /\ args = [cman |-> FALSE, file |-> 1, auto_skip |-> FALSE,
             auto_exit |-> FALSE, viddump |-> FALSE]
  /\ cman = CmanStatic
  /\ cman_out = CmanOutStatic
  /\ cman_auto_skip = FALSE
  /\ cman_auto_exit = FALSE
  /\ cman_was_active = FALSE
  /\ cman_angle_buffer = AngleBufferStatic
  /\ prev_tangent_angle = Zero
  /\ walkcamera = WalkcameraStatic
  /\ player = PlayerSpawn
  /\ gametic = 0
  /\ levelstarttic = 0
  /\ leveltime = 0
  /\ levels = 0
  /\ skiptics = [called |-> FALSE, value |-> 0]
  /\ tick = TickNone
  /\ session = SessionNone
  /\ twin = GlobalsStatic
  /\ peer = GlobalsStatic
  /\ probe = ProbeNone

\* the tangent update of one Bezier evaluation, given the raw heading
\* CMAN_VectorAngle returned: corrected against prev_tangent_angle on every
\* evaluation after the first active one, then stored
BezierTangent ==
  /\ pc \in {"primitives", "tangent"}
  /\ pc' = "tangent"
  /\ \E raw \in Headings :
       /\ cman_was_active => LessThanHalfTurnApart(raw, probe.raw)
       /\ prev_tangent_angle' =
            IF cman_was_active
              THEN CMAN_FixAngleCrossingEast(raw, prev_tangent_angle)
              ELSE raw
       /\ probe' = [kind |-> "tangent", raw |-> raw, fixed |-> cman_was_active,
                    before |-> prev_tangent_angle]
  /\ cman_was_active' = TRUE
  /\ UNCHANGED <<args, cman, cman_out, cman_auto_skip, cman_auto_exit,
                 cman_angle_buffer, walkcamera, player, gametic, levelstarttic,
                 leveltime, levels, skiptics, tick, session, twin, peer>>

\* both conversions applied to an engine angle a and to a turn fraction x,
\* and CMAN_FromZDoomAngle to x with whole turns added
AngleConversion ==
  /\ pc \in {"primitives", "angle"}
  /\ pc' = "angle"
  /\ \E hi \in AngleHighs, lo \in AngleLows, x \in TurnFractions,
        k \in -MaxTurns .. MaxTurns :
       probe' =
         [kind |-> "angle",
          a |-> [hi |-> hi, lo |-> lo],
          back |-> CMAN_FromZDoomAngle(CMAN_ToZDoomAngle([hi |-> hi, lo |-> lo]),
                                       [fixed |-> 0, hi |-> 0]),
          x |-> x,
          there |-> CMAN_ToZDoomAngle(
                      CMAN_FromZDoomAngle(x, [fixed |-> 0, hi |-> 0])),
          turns |-> k,
          shifted |-> CMAN_FromZDoomAngle(FAdd(x, FromInt(k)),
                                          [fixed |-> 0, hi |-> 0]),
          unshifted |-> CMAN_FromZDoomAngle(x, [fixed |-> 0, hi |-> 0])]
  /\ UNCHANGED <<args, cman, cman_out, cman_auto_skip, cman_auto_exit,
                 cman_was_active, cman_angle_buffer, prev_tangent_angle,
                 walkcamera, player, gametic, levelstarttic, leveltime, levels,
                 skiptics, tick, session, twin, peer>>

PrimitivesNext == BezierTangent \/ AngleConversion

PrimitivesSpec == PrimitivesInit /\ [][PrimitivesNext]_vars

(***************************************************************************)
(* Properties of the per-tic state machine.  A session is the run of tics  *)
(* since the last level load; tick.pre and tick.post are the globals       *)
(* before and after the last call of CMAN_Ticker.                          *)
(***************************************************************************)
\* C1: with a loaded profile (delay d >= 0) a call reports engaged exactly
\* when leveltime - d - 1 >= 0: the tics with leveltime in 0..d are not
\* engaged, the first engaged tic of a level is the one with leveltime
\* d + 1, every tic after it is engaged, and an engaged tic leaves
\* cman_was_active true.
C1_EngagedIffRelativeTic ==
  tick.called /\ cman.delay >= 0 =>
    /\ (tick.ret <=> tick.leveltime - cman.delay - 1 >= 0)
    /\ (tick.ret => tick.post.cman_was_active /\ cman_was_active)
    /\ (tick.ret /\ session.engaged = 1 => tick.leveltime = cman.delay + 1)
    /\ (~tick.ret /\ session.ticks >= 1 => session.engaged = 0)

\* a profile with delay 2: two tics not engaged, then the first engaged tic
C1_Witness ==
  /\ tick.called /\ cman.delay = 2 /\ session.ticks >= 3
  /\ tick.ret /\ session.engaged = 1 /\ tick.leveltime = 3
  /\ ~tick.pre.cman_was_active /\ cman_was_active

\* C2: in a session the request to suppress view interpolation is made
\* exactly once, on the first tic of the session that emits a pose, and on
\* no later tic.
C2_ResetOnFirstActiveTic ==
  session.ticks >= 1 =>
    /\ session.resets = (IF session.active >= 1 THEN 1 ELSE 0)
    /\ (tick.reset => tick.emit /\ session.active = 1)

\* C3 as stated: an engaged tic with progress >= 1 leaves the camera
\* override and the player as they were and requests no interpolation
\* reset; it reports engaged.
C3_CompletedTicChangesNothing ==
  tick.called /\ tick.ret /\ FGe(tick.progress, One) =>
    /\ tick.post.walkcamera = tick.pre.walkcamera
    /\ tick.post.player = tick.pre.player
    /\ ~tick.reset

\* C3, amended: an engaged tic with progress >= 1 leaves the player and the
\* pose of the camera override as they were, requests no interpolation
\* reset and emits no pose; the type of the override is left as it was
\* too, unless the tic is a level-start tic, which clears it to 0.
C3_CompletedTicClearsOnlyAtLevelStart ==
  tick.called /\ tick.ret /\ FGe(tick.progress, One) =>
    /\ tick.post.walkcamera =
         [tick.pre.walkcamera EXCEPT !.type = IF tick.levelstart THEN 0 ELSE @]
    /\ tick.post.player = tick.pre.player
    /\ ~tick.reset /\ ~tick.emit
    /\ tick.post.cman_was_active

\* a completed tic after the path was run: the override still holds the
\* last pose
C3_Witness ==
  /\ tick.called /\ tick.ret /\ FGe(tick.progress, One) /\ ~tick.levelstart
  /\ session.active >= 1
  /\ tick.pre.walkcamera.type = 2 /\ tick.post.walkcamera.type = 2
  /\ tick.post.walkcamera.y # 0

\* C4: once a tic of a session had progress >= 1, every later tic of the
\* session has progress >= 1 too and emits no pose.
C4_CompletedIsTerminal ==
  session.ticks >= 1 /\ session.completed >= 1 =>
    tick.ret /\ FGe(tick.progress, One) /\ ~tick.emit

\* a path that was run and has been completed for two tics
C4_Witness ==
  session.active >= 1 /\ session.completed >= 2 /\ FGt(tick.progress, One)

\* C5: a level-start tic of a loaded profile leaves cman_was_active false
\* and the camera override cleared when it is still pending, and the first
\* tic of the session that emits a pose is treated as a first activation:
\* the interpolation reset is requested and the smoothing buffer holds the
\* samples and the sum of a fresh fill.
C5_LevelStartRearmsFirstActivation ==
  /\ tick.called /\ tick.levelstart /\ cman.delay >= 0 /\ ~tick.ret
       => ~tick.post.cman_was_active /\ tick.post.walkcamera.type = 0
  /\ session.ticks >= 1 /\ tick.emit /\ session.active = 1
       => /\ tick.reset
          /\ angle_buffering_needed =>
               /\ tick.post.cman_angle_buffer.values = twin.cman_angle_buffer.values
               /\ tick.post.cman_angle_buffer.sum = twin.cman_angle_buffer.sum

\* C6: a run that enters a level with session state left over emits a pose
\* on the tics, and only on the tics, on which a run entering the level
\* with the initial session state emits one, and the poses are the same.
C6_LeftoverStateIsInvisible ==
  session.ticks >= 1 =>
    /\ (tick.emit <=> twin.emit)
    /\ (tick.emit => tick.post.walkcamera = twin.walkcamera)

\* C7: a call requests the exit of the process exactly when it is engaged,
\* its progress is >= 1, auto-exit is configured and the host is not
\* skipping frames.
C7_ExitIffCompleted ==
  tick.called =>
    (tick.exit <=> /\ tick.ret /\ FGe(tick.progress, One)
                   /\ cman_auto_exit /\ ~tick.skipmode)

\* C8: with delay < 0 a call returns not engaged and leaves the session
\* state, the camera override and the player as they were, on a level-start
\* tic too.
C8_DisabledDoesNothing ==
  tick.called /\ cman.delay < 0 =>
    /\ ~tick.ret /\ ~tick.reset /\ ~tick.exit /\ ~tick.emit
    /\ tick.post = tick.pre

\* a disabled profile, at the start of the second level, with the host's
\* walk camera on
C8_Witness ==
  /\ tick.called /\ args.cman /\ cman.delay < 0 /\ levels = 2
  /\ tick.levelstart /\ tick.pre.walkcamera.type = 1
  /\ tick.post.walkcamera.type = 1

\* C9: without -cman, after CMAN_Init the delay is -1 and auto-skip and
\* auto-exit are off whatever other arguments were given; no call of
\* CMAN_Ticker is engaged or requests the exit, and CMAN_SkipTics returns -1.
C9_NoCmanArgument ==
  pc # "boot" /\ ~args.cman =>
    /\ cman.delay = -1 /\ ~cman_auto_skip /\ ~cman_auto_exit
    /\ (tick.called => ~tick.ret /\ ~tick.exit)
    /\ (skiptics.called => skiptics.value = -1)
    /\ pc # "exited"

\* every other argument given, a tic run and CMAN_SkipTics called
C9_Witness ==
  /\ ~args.cman /\ args.auto_skip /\ args.auto_exit /\ args.viddump
  /\ tick.called /\ skiptics.called /\ skiptics.value = -1

\* C10: CMAN_SkipTics returns the delay of the profile when -cman is given
\* with -cman_auto_skip or -cman_viddump, and -1 otherwise; auto-skip is on
\* in exactly that case, and -cman_viddump with -cman turns auto-exit on.
C10_SkipTics ==
  pc # "boot" =>
    /\ (cman_auto_skip <=> args.cman /\ (args.auto_skip \/ args.viddump))
    /\ (args.cman /\ args.viddump => cman_auto_exit)
    /\ (skiptics.called =>
          skiptics.value = IF args.cman /\ (args.auto_skip \/ args.viddump)
                             THEN cman.delay ELSE -1)

\* -cman_viddump alone with a profile of delay 2
C10_Witness ==
  /\ args.cman /\ args.file = 2 /\ args.viddump /\ ~args.auto_skip
  /\ ~args.auto_exit /\ skiptics.called /\ skiptics.value = 2
  /\ cman_auto_exit

(***************************************************************************)
(* Properties of the angle smoothing buffer.                               *)
(***************************************************************************)
\* the exact total of the slots lo .. hi
RECURSIVE SlotsSum(_, _, _)
SlotsSum(values, lo, hi) ==
  IF hi < lo THEN Zero
  ELSE IF hi = lo THEN BufRead(values, lo)
  ELSE FAdd(SlotsSum(values, lo, (lo + hi) \div 2),
            SlotsSum(values, ((lo + hi) \div 2) + 1, hi))

\* the exact total of the slots 0 .. n-1
SlotsTotal(values, n) == SlotsSum(values, 0, n - 1)

\* C11: with smoothing in use, after the first-activation fill and after
\* any sequence of steady-state updates, cman_angle_buffer.sum is exactly
\* the sum of the N = ga_buffer_len values stored in the slots 0 .. N-1.
C11_SumIsTotalOfSlots ==
  pc # "boot" /\ angle_buffering_needed =>
    cman_angle_buffer.sum =
      SlotsTotal(cman_angle_buffer.values, cman.ga_buffer_len)

\* a third Active tic of a session (the fill and two steady-state updates)
\* with a buffer of three different samples
C11_Witness ==
  /\ angle_buffering_needed /\ cman.ga_buffer_len = 3
  /\ tick.emit /\ session.active >= 3
  /\ tick.pre.cman_angle_buffer.sum # tick.post.cman_angle_buffer.sum
  /\ BufRead(cman_angle_buffer.values, 0) # BufRead(cman_angle_buffer.values, 1)
  /\ BufRead(cman_angle_buffer.values, 1) # BufRead(cman_angle_buffer.values, 2)
  /\ ~IsZero(cman_angle_buffer.sum)

\* the relative time of the last call of CMAN_Ticker
RelativeTic == tick.leveltime - cman.delay - 1

\* the oldest lookahead time of the window of the last call
WindowStart ==
  RelativeTic + CDiv(cman.ga_buffer_len, 2) - cman.ga_buffer_len + 1

\* C12: the buffer is a sliding window of the last N yaw samples: after
\* the buffer update of an engaged tic at relative time t the slots hold the
\* samples of the N consecutive times t + N/2 - N + 1 .. t + N/2, the slot
\* at the index holding the oldest one and the slots after it (cyclically)
\* the later ones in order.
C12_SlidingWindow ==
  tick.called /\ tick.ret /\ angle_buffering_needed =>
    \A k \in 0 .. cman.ga_buffer_len - 1 :
      BufRead(tick.post.cman_angle_buffer.times,
              (tick.post.cman_angle_buffer.index + k) % cman.ga_buffer_len)
        = FromInt(WindowStart + k)

\* the last call updated the buffer with cman_was_active false: it was
\* engaged, with smoothing in use, and either a level-start tic or a tic
\* that found cman_was_active false
FirstActivationTic ==
  /\ tick.called /\ tick.ret /\ angle_buffering_needed
  /\ (tick.levelstart \/ ~tick.pre.cman_was_active)

\* C13: a first-activation tic leaves the buffer index at 0, whatever the
\* index was before.
C13_FillResetsIndex ==
  FirstActivationTic => tick.post.cman_angle_buffer.index = 0

\* the yaw of the Bezier evaluation at the time u with overshoot forced
\* true, evaluated on its own (cman_was_active false)
FillYaw(u) ==
  CMAN_NextValuesUnbuffered([GlobalsStatic EXCEPT !.ub = tick.ub],
                            FromInt(u), TRUE).cman_out.a

\* C14: a first-activation tic at relative time t overwrites all N slots:
\* slot i holds the yaw of the Bezier evaluation at t + N/2 - (N-1-i) with
\* overshoot forced true, and sum is the total of these N yaws, whatever
\* the buffer held before.
C14_FillOverwritesAllSlots ==
  FirstActivationTic =>
    /\ \A i \in 0 .. cman.ga_buffer_len - 1 :
         /\ i \in DOMAIN tick.post.cman_angle_buffer.values
         /\ tick.post.cman_angle_buffer.values[i] = FillYaw(WindowStart + i)
    /\ tick.post.cman_angle_buffer.sum =
         SlotsTotal([i \in 0 .. cman.ga_buffer_len - 1 |-> FillYaw(WindowStart + i)],
                    cman.ga_buffer_len)

\* the first-activation tic of a second level that finds other values and
\* another sum in the buffer than the ones it leaves
C14_Witness ==
  /\ FirstActivationTic /\ levels = 2 /\ cman.ga_buffer_len = 3
  /\ \A i \in 0 .. 2 :
       /\ i \in DOMAIN tick.pre.cman_angle_buffer.values
       /\ tick.pre.cman_angle_buffer.values[i] # tick.post.cman_angle_buffer.values[i]
  /\ ~IsZero(tick.pre.cman_angle_buffer.sum)
  /\ tick.pre.cman_angle_buffer.sum # tick.post.cman_angle_buffer.sum

\* the three conditions on the profile under which smoothing is active
SmoothingProfile ==
  /\ cman.ga_buffer_len > 1
  /\ cman.path_mode = CMAN_PATH_MODE_BEZIER
  /\ cman.angle_mode = CMAN_ANGLE_MODE_RELATIVE

\* the globals the evaluation of the last call started from: those before
\* the call, after the level-start reset if the call was a level-start tic
EvaluationStart ==
  [tick.pre EXCEPT !.ub = tick.ub,
                   !.cman_was_active = IF tick.levelstart THEN FALSE ELSE @,
                   !.walkcamera.type = IF tick.levelstart THEN 0 ELSE @]

\* the unbuffered evaluation of the last call: at its relative time, with
\* the profile's own overshoot flag
UnbufferedNow ==
  CMAN_NextValuesUnbuffered(EvaluationStart, FromInt(RelativeTic),
                            cman.overshoot # 0)

\* C15: smoothing is applied exactly when ga_buffer_len > 1, the path mode
\* is Bezier and the angle mode is Relative: for any other profile no call
\* modifies the angle buffer and the yaw of an engaged tic is the yaw of
\* the unbuffered evaluator; for such a profile every engaged tic updates
\* the buffer (stores the sample of t + N/2 and advances the index).
C15_SmoothingExactlyWhenNeeded ==
  tick.called =>
    IF SmoothingProfile
      THEN tick.ret =>
             /\ tick.post.cman_angle_buffer.index
                  = (tick.pre.cman_angle_buffer.index + 1) % cman.ga_buffer_len
             /\ \E i \in 0 .. cman.ga_buffer_len - 1 :
                  BufRead(tick.post.cman_angle_buffer.times, i)
                    = FromInt(RelativeTic + CDiv(cman.ga_buffer_len, 2))
      ELSE /\ tick.post.cman_angle_buffer = tick.pre.cman_angle_buffer
           /\ tick.post.cman_angle_buffer = AngleBufferStatic
           /\ tick.ret => tick.post.cman_out.a = UnbufferedNow.cman_out.a

\* a Bezier profile with a buffer length above 1 in the Absolute angle
\* mode: an Active tic with a non-zero yaw
C15_Witness ==
  /\ tick.called /\ tick.ret /\ tick.emit /\ session.active >= 2
  /\ cman.ga_buffer_len > 1 /\ cman.path_mode = CMAN_PATH_MODE_BEZIER
  /\ cman.angle_mode = CMAN_ANGLE_MODE_ABSOLUTE
  /\ ~IsZero(tick.post.cman_out.a)
  /\ cman_angle_buffer = AngleBufferStatic

\* the lookahead sample of the last call: the evaluation at t + N/2 with
\* overshoot forced true
LookaheadSample ==
  CMAN_NextValuesUnbuffered(EvaluationStart,
                            FromInt(RelativeTic + CDiv(cman.ga_buffer_len, 2)),
                            TRUE)

\* C16: with smoothing active the buffer is updated before the tic's own
\* pose is computed: after an engaged tic the position x, y, z, the pitch
\* and the progress are those of the unbuffered evaluation at the current
\* time with the profile's own overshoot flag, and the yaw is sum / N.
C16_OnlyYawIsSmoothed ==
  tick.called /\ tick.ret /\ SmoothingProfile =>
    /\ tick.post.cman_out.x = UnbufferedNow.cman_out.x
    /\ tick.post.cman_out.y = UnbufferedNow.cman_out.y
    /\ tick.post.cman_out.z = UnbufferedNow.cman_out.z
    /\ tick.post.cman_out.p = UnbufferedNow.cman_out.p
    /\ tick.progress = UnbufferedNow.progress
    /\ tick.post.cman_out.a =
         FDiv(tick.post.cman_angle_buffer.sum, FromInt(cman.ga_buffer_len))

\* a tic of a smoothing profile without overshoot whose own evaluation has
\* snapped to the end of the path while its lookahead sample lies beyond
\* it, and whose smoothed yaw is not the yaw of its own evaluation
C16_Witness ==
  /\ tick.called /\ tick.ret /\ SmoothingProfile /\ cman.overshoot = 0
  /\ FGe(tick.progress, One)
  /\ tick.post.cman_out.x = cman.x2 /\ tick.post.cman_out.y = cman.y2
  /\ LookaheadSample.cman_out.y # tick.post.cman_out.y
  /\ LookaheadSample.progress # tick.progress
  /\ tick.post.cman_out.a # UnbufferedNow.cman_out.a

(***************************************************************************)
(* Properties of the path evaluators, read off the last call of            *)
(* CMAN_Ticker: tick.post.cman_out is what the evaluation at the relative  *)
(* time of the call left, tick.progress what it returned.                  *)
(***************************************************************************)
\* the progress of the profile at the relative time of the last call, as a
\* quotient that is never clamped
UnclampedProgress ==
  IF cman.path_mode = CMAN_PATH_MODE_BEZIER
       \/ cman.speed_mode = CMAN_SPEED_MODE_TIME
    THEN (IF IsZero(cman.speed) THEN Zero
          ELSE FDiv(FromInt(RelativeTic), cman.speed))
  ELSE IF cman.path_mode = CMAN_PATH_MODE_LINEAR
    THEN FDiv(FMul(cman.speed, FromInt(RelativeTic)),
              CMAN_VectorLength(FSub(cman.x1, cman.x0), FSub(cman.y1, cman.y0)))
  ELSE FDiv(FMul(cman.speed, FromInt(RelativeTic)),
            FAbs(FSub(cman.ra1, cman.ra0)))

\* the last call evaluated a known path mode
EvaluatedTic ==
  /\ tick.called /\ tick.ret
  /\ cman.path_mode \in {CMAN_PATH_MODE_LINEAR, CMAN_PATH_MODE_RADIAL,
                         CMAN_PATH_MODE_BEZIER}

\* the yaw the angle mode adds to the base yaw: the direction of the path
\* (Linear), towards the centre c (Radial), the stored tangent (Bezier)
RelativeYaw(c) ==
  IF cman.angle_mode # CMAN_ANGLE_MODE_RELATIVE THEN Zero
  ELSE IF cman.path_mode = CMAN_PATH_MODE_LINEAR
    THEN CMAN_VectorAngle(FSub(cman.x1, cman.x0), FSub(cman.y1, cman.y0), tick.ub)
  ELSE IF cman.path_mode = CMAN_PATH_MODE_RADIAL
    THEN CMAN_VectorAngle(FSub(c.x, tick.post.cman_out.x),
                          FSub(c.y, tick.post.cman_out.y), tick.ub)
  ELSE tick.post.prev_tangent_angle

\* the pose of the control values v: position (v.x, v.y, v.z), or for the
\* Radial mode the point at sweep v.ra and radius v.r around (v.cx, v.cy);
\* base yaw v.a, pitch v.p
PoseIs(v) ==
  /\ tick.post.cman_out.z = v.z
  /\ tick.post.cman_out.p = v.p
  /\ IF cman.path_mode = CMAN_PATH_MODE_RADIAL
       THEN /\ tick.post.cman_out.x = FAdd(v.cx, FMul(Trig(v.ra).c, v.r))
            /\ tick.post.cman_out.y = FAdd(v.cy, FMul(Trig(v.ra).s, v.r))
       ELSE /\ tick.post.cman_out.x = v.x
            /\ tick.post.cman_out.y = v.y
  /\ ~SmoothingProfile =>
       tick.post.cman_out.a = FAdd(v.a, RelativeYaw([x |-> v.cx, y |-> v.cy]))

\* the terminal control values of the path mode
TerminalValues ==
  [x |-> IF cman.path_mode = CMAN_PATH_MODE_BEZIER THEN cman.x2 ELSE cman.x1,
   y |-> IF cman.path_mode = CMAN_PATH_MODE_BEZIER THEN cman.y2 ELSE cman.y1,
   z |-> IF cman.path_mode = CMAN_PATH_MODE_BEZIER THEN cman.z2 ELSE cman.z1,
   ra |-> cman.ra1, r |-> cman.r1, cx |-> cman.cx1, cy |-> cman.cy1,
   a |-> cman.a1, p |-> cman.p1]

\* the control values interpolated with the progress q
InterpolatedValues(q) ==
  [x |-> IF cman.path_mode = CMAN_PATH_MODE_BEZIER
           THEN BezierPoint(cman.x0, cman.x1, cman.x2, q)
           ELSE Lerp(cman.x0, cman.x1, q),
   y |-> IF cman.path_mode = CMAN_PATH_MODE_BEZIER
           THEN BezierPoint(cman.y0, cman.y1, cman.y2, q)
           ELSE Lerp(cman.y0, cman.y1, q),
   z |-> IF cman.path_mode = CMAN_PATH_MODE_BEZIER
           THEN BezierPoint(cman.z0, cman.z1, cman.z2, q)
           ELSE Lerp(cman.z0, cman.z1, q),
   ra |-> Lerp(cman.ra0, cman.ra1, q), r |-> Lerp(cman.r0, cman.r1, q),
   cx |-> Lerp(cman.cx0, cman.cx1, q), cy |-> Lerp(cman.cy0, cman.cy1, q),
   a |-> Lerp(cman.a0, cman.a1, q), p |-> Lerp(cman.p0, cman.p1, q)]

\* C18: for each path mode, with overshoot false and progress >= 1 the
\* evaluator outputs exactly the terminal control values, however far t
\* lies beyond the end, while the progress it returns is not clamped; with
\* overshoot true or progress < 1 it interpolates with that progress.
C18_SnapsToTerminalValues ==
  EvaluatedTic =>
    /\ tick.progress = UnclampedProgress
    /\ cman.overshoot = 0 /\ FGe(tick.progress, One) => PoseIs(TerminalValues)
    /\ cman.overshoot # 0 \/ FLt(tick.progress, One)
         => PoseIs(InterpolatedValues(tick.progress))

\* a Linear profile without overshoot at twice the length of its path
C18_Witness ==
  /\ EvaluatedTic /\ cman.overshoot = 0
  /\ cman.path_mode = CMAN_PATH_MODE_LINEAR
  /\ FGe(tick.progress, FromInt(2))
  /\ tick.post.cman_out.y = cman.y1 /\ ~IsZero(cman.y1)
  /\ session.completed >= 2

\* the profile's progress is a quotient by its speed: Linear or Radial in
\* the Time speed mode, and every Bezier profile
TimeBased ==
  \/ cman.path_mode = CMAN_PATH_MODE_BEZIER
  \/ /\ cman.path_mode \in {CMAN_PATH_MODE_LINEAR, CMAN_PATH_MODE_RADIAL}
     /\ cman.speed_mode = CMAN_SPEED_MODE_TIME

\* C19: with speed = 0 in a time-based speed mode (Linear or Radial with
\* the Time speed mode, every Bezier profile in either angle mode) the
\* evaluation of any tic yields progress 0 and divides by zero nowhere.
C19_ZeroSpeedIsGuarded ==
  tick.called /\ tick.ret /\ TimeBased /\ IsZero(cman.speed) =>
    /\ tick.progress = Zero
    /\ ~tick.divzero

C20_AngleRoundTrip ==
  pc = "angle" =>
    /\ probe.back = [hi |-> probe.a.hi, lo |-> 0]
    /\ probe.there = probe.x
    /\ probe.shifted = probe.unshifted

\* the largest engine angle with low bits set, and the largest turn
\* fraction moved two turns down
C20_Witness ==
  /\ pc = "angle"
  /\ probe.a = [hi |-> AngleSteps - 1, lo |-> AngleSteps - 1]
  /\ probe.back = [hi |-> AngleSteps - 1, lo |-> 0]
  /\ probe.x = Rat(AngleSteps - 1, AngleSteps) /\ probe.turns = -2
  /\ probe.shifted = [hi |-> AngleSteps - 1, lo |-> 0]

(***************************************************************************)
(* Properties of the buffer against its array (under Spec for the buffer   *)
(* lengths up to 4, under OverrunSpec for the length 1025).                *)
(***************************************************************************)
\* C21: for every profile with a buffer length N >= 0 and every sequence
\* of tics, the index satisfies 0 <= index < N after each update of the
\* buffer, and every read and write of cman_angle_buffer.values uses a slot
\* of the array of 1024.
C21_BufferStaysInArray ==
  tick.called /\ tick.ret /\ angle_buffering_needed =>
    /\ ~tick.oob
    /\ tick.post.cman_angle_buffer.index \in 0 .. cman.ga_buffer_len - 1

(***************************************************************************)
(* Properties of the samples against the headings of the path.             *)
(***************************************************************************)
\* the raw tangent heading of the time u, in [0, 1): the yaw of an
\* evaluation on its own, less the base yaw
RawHeading(u) == FSub(FillYaw(u), cman.a0)

\* r moved by whole turns to within half a turn of prev
NearestTurn(r, prev) ==
  FAdd(r, FromInt(Floor(FAdd(FSub(prev, r), Rat(1, 2)))))

\* the heading of the time u unwrapped along the times from, from + 1 .. u
RECURSIVE UnwrappedHeading(_, _)
UnwrappedHeading(u, from) ==
  IF u <= from THEN RawHeading(from)
  ELSE NearestTurn(RawHeading(u), UnwrappedHeading(u - 1, from))

\* the lookahead times of the samples the buffer holds after the tic
SampleTimes ==
  { tick.post.cman_angle_buffer.times[i].n :
      i \in DOMAIN tick.post.cman_angle_buffer.times }

OldestSampleTime == CHOOSE u \in SampleTimes : \A v \in SampleTimes : u <= v

NewestSampleTime == CHOOSE u \in SampleTimes : \A v \in SampleTimes : v <= u

\* the raw headings of consecutive times, from the oldest to the newest
\* sample, are less than half a turn apart on the circle
HeadingsTurnSlowly ==
  \A u \in OldestSampleTime .. NewestSampleTime - 1 :
    FAbs(FSub(RawHeading(u + 1), RawHeading(u))) # Rat(1, 2)

\* the unwrapped headings of the sample times, with the base yaw
WindowYaws ==
  { FAdd(cman.a0, UnwrappedHeading(u, OldestSampleTime)) : u \in SampleTimes }

\* sum / N after the tic
WindowAverage ==
  FDiv(tick.post.cman_angle_buffer.sum, FromInt(cman.ga_buffer_len))

\* C22: with smoothing in use and a0 = a1, whenever the raw tangent
\* headings of consecutive times are less than half a turn apart on the
\* circle, the buffer after a tic holds no two samples of adjacent
\* lookahead times that differ by half a turn or more, and the average
\* sum / N lies (up to whole turns) between the smallest and the largest
\* unwrapped heading of its window.
C22_SamplesAreUnwrapped ==
  /\ tick.called /\ tick.ret /\ angle_buffering_needed
  /\ cman.a0 = cman.a1 /\ HeadingsTurnSlowly
  => /\ \A i, j \in DOMAIN tick.post.cman_angle_buffer.times :
          tick.post.cman_angle_buffer.times[j]
            = FAdd(tick.post.cman_angle_buffer.times[i], One)
          => FLt(FAbs(FSub(tick.post.cman_angle_buffer.values[j],
                           tick.post.cman_angle_buffer.values[i])),
                 Rat(1, 2))
     /\ \E k \in -MaxTurns .. MaxTurns :
          /\ \E lo \in WindowYaws : ~FLt(FAdd(WindowAverage, FromInt(k)), lo)
          /\ \E hi \in WindowYaws : ~FLt(hi, FAdd(WindowAverage, FromInt(k)))

(***************************************************************************)
(* Properties of two sessions whose profiles differ in overshoot only.     *)
(***************************************************************************)
\* C23: the overshoot flag does not influence anything the host sees: the
\* session of the profile with the other overshoot flag, given the same
\* tics and the same answers of the host, has on every tic the same engaged
\* flag, the same emitted camera override, the same interpolation reset and
\* the same auto-exit request (and leaves the player the same).
C23_OvershootIsInvisible ==
  /\ peer.ret = tick.ret
  /\ peer.emit = tick.emit
  /\ peer.reset = tick.reset
  /\ peer.exit = tick.exit
  /\ peer.walkcamera = walkcamera
  /\ peer.player = player

\* a Completed tic past the end of the path on which the two sessions
\* evaluated different poses, after Active tics that emitted poses
C23_Witness ==
  /\ tick.called /\ tick.ret /\ FGt(tick.progress, One)
  /\ session.active >= 2
  /\ peer.overshoot # tick.post.overshoot
  /\ peer.cman_out # tick.post.cman_out
  /\ peer.walkcamera = walkcamera /\ walkcamera.type = 2

(***************************************************************************)
(* Properties of the timed paths (under FairSpec).                         *)
(***************************************************************************)
\* a loaded profile whose progress is t / speed with a speed above 0
TimedProfile == cman.delay >= 0 /\ TimeBased /\ FGt(cman.speed, Zero)

\* the least relative tic that is not below the speed
CompletionTic == -Floor(FNeg(cman.speed))

\* the tics of the level end before its tic of relative time CompletionTic:
\* the host runs no tic past leveltime MaxTic or gametic MaxGametic
LevelCutShort ==
  /\ leveltime > MaxTic \/ gametic >= MaxGametic
  /\ leveltime <= cman.delay + 1 + CompletionTic

\* the level has had a Completed tic: an engaged tic that was not Active
LevelCompleted == session.engaged > session.active

\* on an engaged tic of a timed profile: the tic is Active exactly when
\* its relative tic is below the speed and Completed otherwise, relative tic
\* 0 is Active, and the first Completed tic of a level is CompletionTic
TimedTicIsActiveBelowSpeed ==
  tick.called /\ tick.ret /\ TimedProfile =>
    /\ tick.emit <=> FLt(FromInt(RelativeTic), cman.speed)
    /\ FGe(tick.progress, One) <=> ~FLt(FromInt(RelativeTic), cman.speed)
    /\ tick.emit <=> ~FGe(tick.progress, One)
    /\ RelativeTic = 0 => tick.emit
    /\ ~tick.emit /\ session.engaged = session.active + 1
         => RelativeTic = CompletionTic

\* C24: for a loaded profile in a time-based speed mode with speed s > 0,
\* relative tic 0 is Active, the tics with relative tic below s are exactly
\* the Active ones, the first Completed tic of a level is the least
\* relative tic that is not below s, and if the host keeps running tics the
\* level reaches a Completed tic unless its tics end before that one.
C24_TimedPathCompletes ==
  /\ []TimedTicIsActiveBelowSpeed
  /\ (pc = "level" /\ TimedProfile) ~> (LevelCompleted \/ LevelCutShort)

\* the first Completed tic of a level on a path with a fractional speed,
\* after as many Active tics as there are relative tics below the speed
C24_Witness ==
  /\ tick.called /\ tick.ret /\ TimedProfile /\ ~tick.emit
  /\ LevelCompleted /\ session.engaged = session.active + 1
  /\ session.active = CompletionTic
  /\ FLt(FromInt(CompletionTic - 1), cman.speed)
  /\ FLt(cman.speed, FromInt(CompletionTic))
  /\ RelativeTic = CompletionTic

====
